---- MODULE Spec2Model ----
(***************************************************************************)
(* Model of pygmm's conditional mean spectrum vector (Kishida 2017,        *)
(* calc_cond_mean_spectrum_vector) and of the construction of the          *)
(* Idriss (2014) ground motion model.                                      *)
(*                                                                         *)
(* Real numbers are exact rationals <<numerator, denominator>> in lowest   *)
(* terms with a positive denominator, numpy arrays are records carrying    *)
(* their shape, and a square root is held by its radicand.                 *)
(***************************************************************************)
EXTENDS Integers, Sequences, FiniteSets, TLC

(***************************************************************************)
(* Exact arithmetic                                                        *)
(***************************************************************************)
Abs(x) == IF x < 0 THEN -x ELSE x

RECURSIVE GCD(_, _)
GCD(a, b) == IF b = 0 THEN a ELSE GCD(b, a % b)

Rat(num, den) ==
    LET g == GCD(Abs(num), Abs(den))
        s == IF den < 0 THEN -1 ELSE 1
    IN  <<(s * num) \div g, (s * den) \div g>>

RInt(k) == <<k, 1>>
RZero == RInt(0)
ROne == RInt(1)
RAdd(a, b) == Rat(a[1] * b[2] + b[1] * a[2], a[2] * b[2])
RSub(a, b) == Rat(a[1] * b[2] - b[1] * a[2], a[2] * b[2])
RMul(a, b) == Rat(a[1] * b[1], a[2] * b[2])
RDiv(a, b) == Rat(a[1] * b[2], a[2] * b[1])

RECURSIVE RPow(_, _)
RPow(a, k) == IF k = 0 THEN ROne ELSE RMul(a, RPow(a, k - 1))

\* sum of f[lo] .. f[hi], zero when the range is empty
RECURSIVE RSum(_, _, _)
RSum(f, lo, hi) == IF hi < lo THEN RZero ELSE RAdd(RSum(f, lo, hi - 1), f[hi])

(***************************************************************************)
(* numpy arrays: 1-d arrays are sequences, 2-d arrays carry their shape    *)
(* (r rows, c columns) so that empty blocks keep their dimensions.         *)
(***************************************************************************)
\* r rows and c columns with the entries f[i, j]
Mat(r, c, f) ==
    [r |-> r, c |-> c,
     e |-> <<>> \o [i \in 1..r |-> <<>> \o [j \in 1..c |-> f[i, j]]]]

\* A @ B
MatMul(A, B) ==
    Mat(A.r, B.c, [i \in 1..A.r, j \in 1..B.c |->
        RSum([k \in 1..A.c |-> RMul(A.e[i][k], B.e[k][j])], 1, A.c)])

MatSub(A, B) ==
    Mat(A.r, A.c, [i \in 1..A.r, j \in 1..A.c |-> RSub(A.e[i][j], B.e[i][j])])

\* A.T
Transpose(A) == Mat(A.c, A.r, [i \in 1..A.c, j \in 1..A.r |-> A.e[j][i]])

\* np.diag of a 1-d array: the diagonal matrix
DiagMat(v) ==
    Mat(Len(v), Len(v), [i \in 1..Len(v), j \in 1..Len(v) |->
        IF i = j THEN v[i] ELSE RZero])

\* np.diag of a square 2-d array: its diagonal
DiagOf(A) == [i \in 1..A.r |-> A.e[i][i]]

\* np.vstack of equally long 1-d arrays
VStack(rows, width) ==
    Mat(Len(rows), width, [i \in 1..Len(rows), j \in 1..width |-> rows[i][j]])

\* A[r0:r1, c0:c1] with numpy's half-open, zero-based bounds
Slice(A, r0, r1, c0, c1) ==
    Mat(r1 - r0, c1 - c0, [i \in 1..(r1 - r0), j \in 1..(c1 - c0) |->
        A.e[r0 + i][c0 + j]])

\* np.asmatrix(v).T : a column
Column(v) == Mat(Len(v), 1, [i \in 1..Len(v), j \in 1..1 |-> v[i]])

\* np.ravel of a matrix, row by row
Ravel(A) ==
    [k \in 1..(A.r * A.c) |-> A.e[((k - 1) \div A.c) + 1][((k - 1) % A.c) + 1]]

\* the m x m identity matrix
Identity(m) == Mat(m, m, [i \in 1..m, j \in 1..m |-> IF i = j THEN ROne ELSE RZero])

\* the matrix without row i and column j
Minor(A, i, j) ==
    Mat(A.r - 1, A.c - 1, [a \in 1..(A.r - 1), b \in 1..(A.c - 1) |->
        A.e[IF a < i THEN a ELSE a + 1][IF b < j THEN b ELSE b + 1]])

Sign(k) == IF k % 2 = 0 THEN ROne ELSE RInt(-1)

RECURSIVE Det(_)
Det(A) ==
    IF A.r = 0 THEN ROne
    ELSE RSum([j \in 1..A.c |->
                 RMul(RMul(Sign(1 + j), A.e[1][j]), Det(Minor(A, 1, j)))],
              1, A.c)

\* an empty matrix refused as well
Singular_OrEmpty(A) == A.r = 0 \/ Det(A) = RZero

Singular(A) == Det(A) = RZero

\* np.linalg.inv of a non-singular square matrix (0 x 0 gives 0 x 0)
Inv(A) ==
    LET d == Det(A)
    IN  Mat(A.r, A.c, [i \in 1..A.r, j \in 1..A.c |->
            RDiv(RMul(Sign(i + j), Det(Minor(A, j, i))), d)])

(***************************************************************************)
(* Bounds of the inputs                                                    *)
(***************************************************************************)
\* number of spectral periods of a call
NumPeriods == 3

Idx == 1..NumPeriods
\* the increasing grid 1, 2, .., and the grids with one adjacent pair equal or
\* out of order
Grid == [i \in Idx |-> i]
PeriodSeqs ==
    {Grid}
    \cup {[Grid EXCEPT ![k + 1] = Grid[k]] : k \in 1..(NumPeriods - 1)}
    \cup {[Grid EXCEPT ![k] = Grid[k + 1], ![k + 1] = Grid[k]] : k \in 1..(NumPeriods - 1)}
\* unconditioned spectra: flat, or decreasing with the period
PsaSeqs == {[i \in Idx |-> RInt(-(k * i))] : k \in {0, 1}}
\* standard deviations: 1 or 2 at each period, or 0 at one period and 1 elsewhere
StdSeqs ==
    [Idx -> {ROne, RInt(2)}]
    \cup {[i \in Idx |-> IF i = z THEN RZero ELSE ROne] : z \in Idx}
TargetVals == {RZero, ROne}
\* correlation between periods one unit apart
Rhos == {Rat(1, 2), ROne}

(***************************************************************************)
(* numpy helpers used by calc_cond_mean_spectrum_vector                    *)
(***************************************************************************)
\* a[mask] for a boolean mask: the entries where the mask equals b, in order
RECURSIVE Take(_, _, _, _)
Take(a, mask, b, k) ==
    IF k > Len(a) THEN <<>>
    ELSE (IF mask[k] = b THEN <<a[k]>> ELSE <<>>) \o Take(a, mask, b, k + 1)

Masked(a, mask) == Take(a, mask, TRUE, 1)
Unmasked(a, mask) == Take(a, mask, FALSE, 1)

\* np.ma.count_masked and MaskedArray.count
CountMasked(ma) == Cardinality({i \in DOMAIN ma.mask : ma.mask[i]})
Count(ma) == Cardinality({i \in DOMAIN ma.mask : ~ma.mask[i]})

\* the same check accepting equal neighbours
Increasing_NonStrict(p) == \A k \in 1..(Len(p) - 1) : p[k + 1] - p[k] >= 0

\* no check at all
Increasing_Unchecked(p) == TRUE

\* np.all(np.diff(periods) > 0)
Increasing(p) == \A k \in 1..(Len(p) - 1) : p[k + 1] - p[k] > 0

\* the place of s[g] in ascending order, equal entries in the order they come
Rank(s, g) ==
    1 + Cardinality({h \in DOMAIN s : s[h] < s[g] \/ (s[h] = s[g] /\ h < g)})

\* the grouped order kept as it is
ArgSort_NoSort(s) == [i \in DOMAIN s |-> i]

\* np.argsort: indices[i] is the position of the i-th smallest entry
ArgSort(s) == [i \in DOMAIN s |-> CHOOSE g \in DOMAIN s : Rank(s, g) = i]

\* a[indices] = ..., the permutation applied the other way round
Gather_Scatter(a, indices) ==
    [i \in DOMAIN indices |-> a[CHOOSE k \in DOMAIN indices : indices[k] = i]]

\* a[indices]
Gather(a, indices) == [i \in DOMAIN indices |-> a[indices[i]]]

VecAdd(a, b) == [i \in DOMAIN a |-> RAdd(a[i], b[i])]
VecSub(a, b) == [i \in DOMAIN a |-> RSub(a[i], b[i])]

\* A standard deviation is a non-negative real held by its square (np.sqrt of a
\* rational need not be rational); np.sqrt of a negative number is nan.
NaN == <<"nan", RZero>>
Sqrt(x) == IF x[1] < 0 THEN NaN ELSE <<"root", x>>
\* the non-negative rational q as such a value
Exact(q) == <<"root", RMul(q, q)>>
\* np.zeros(k)
Zeros(k) == [i \in 1..k |-> Exact(RZero)]

NoMat == [r |-> 0, c |-> 0, e |-> <<>>]

VARIABLES
    periods, ln_psas, ln_stds, ln_psas_cond,    \* arguments of the call
    rho,                                        \* the correlation model in use
    pc, err,                                    \* position in the call, exception raised
    periods_grouped, mat_covar, n, mat_covar_22_inv, mat_total_resids,
    ln_psas_cmsv, ln_stds_cmsv,                 \* locals, the last two are returned
    call, first                                 \* which call this is, and the first call

cmsv_vars == <<periods, ln_psas, ln_stds, ln_psas_cond, rho, pc, err,
               periods_grouped, mat_covar, n, mat_covar_22_inv, mat_total_resids,
               ln_psas_cmsv, ln_stds_cmsv, call, first>>

\* baker_jayaram_2008.calc_correl(periods, period_cond): the correlation of each
\* period with period_cond; symmetric, 1 for equal periods
calc_correl(ps, period_cond) ==
    [i \in DOMAIN ps |-> RPow(rho, Abs(ps[i] - period_cond))]

NoFirst == [periods |-> <<>>, ln_psas |-> <<>>, ln_stds |-> <<>>,
            ln_psas_cond |-> [data |-> <<>>, mask |-> <<>>],
            ln_psas_cmsv |-> <<>>, ln_stds_cmsv |-> <<>>, swapped |-> <<0, 0>>]

InitCmsv ==
    /\ periods \in PeriodSeqs
    /\ ln_psas \in PsaSeqs
    /\ ln_stds \in StdSeqs
    /\ ln_psas_cond \in [data : [Idx -> TargetVals], mask : [Idx -> BOOLEAN]]
    \* the data under the mask starts at 0; CallVaryMasked puts any other there
    /\ \A i \in Idx : ln_psas_cond.mask[i] => ln_psas_cond.data[i] = RZero
    /\ rho \in Rhos
    /\ pc = "start"
    /\ err = "none"
    /\ periods_grouped = <<>>
    /\ mat_covar = NoMat
    /\ n = 0
    /\ mat_covar_22_inv = NoMat
    /\ mat_total_resids = NoMat
    /\ ln_psas_cmsv = <<>>
    /\ ln_stds_cmsv = <<>>
    /\ call = "first"
    /\ first = NoFirst

mask == ln_psas_cond.mask

\* lines 45-50: the ordering check
CheckPeriods ==
    /\ pc = "start"
    /\ IF ~Increasing(periods)
       THEN pc' = "raised" /\ err' = "ValueError"
       ELSE pc' = "checked" /\ err' = err
    /\ UNCHANGED <<periods, ln_psas, ln_stds, ln_psas_cond, rho, periods_grouped,
                   mat_covar, n, mat_covar_22_inv, mat_total_resids,
                   ln_psas_cmsv, ln_stds_cmsv, call, first>>

\* lines 52-56: masked (not conditioned) periods first, then the conditioning ones
GroupPeriods ==
    /\ pc = "checked"
    /\ periods_grouped' = Masked(periods, mask) \o Unmasked(periods, mask)
    /\ pc' = "grouped"
    /\ UNCHANGED <<periods, ln_psas, ln_stds, ln_psas_cond, rho, err,
                   mat_covar, n, mat_covar_22_inv, mat_total_resids,
                   ln_psas_cmsv, ln_stds_cmsv, call, first>>

\* the standard deviations applied on one side only
Covar_OneSided(mat_ln_std, mat_correl) == MatMul(mat_ln_std, mat_correl)

\* line 63: mat_ln_std @ mat_correl @ mat_ln_std
Covar(mat_ln_std, mat_correl) == MatMul(MatMul(mat_ln_std, mat_correl), mat_ln_std)

\* lines 57-63: V^{1/2} R V^{1/2}
Covariance ==
    /\ pc = "grouped"
    /\ LET mat_ln_std == DiagMat(Masked(ln_stds, mask) \o Unmasked(ln_stds, mask))
           mat_correl ==
               Transpose(VStack([k \in DOMAIN periods_grouped |->
                                    calc_correl(periods_grouped, periods_grouped[k])],
                                Len(periods_grouped)))
       IN  mat_covar' = Covar(mat_ln_std, mat_correl)
    /\ pc' = "covar"
    /\ UNCHANGED <<periods, ln_psas, ln_stds, ln_psas_cond, rho, err,
                   periods_grouped, n, mat_covar_22_inv, mat_total_resids,
                   ln_psas_cmsv, ln_stds_cmsv, call, first>>

\* lines 66-69: the submatrices of Equation (6)
Size == mat_covar.r
mat_covar_11 == Slice(mat_covar, 0, n, 0, n)

\* the leading block taken for the trailing one
mat_covar_22_Leading == Slice(mat_covar, 0, n, 0, n)

mat_covar_22 == Slice(mat_covar, n, Size, n, Size)

mat_covar_12 == Slice(mat_covar, 0, n, n, Size)
mat_covar_21 == Slice(mat_covar, n, Size, 0, n)

\* lines 64-69: the number of masked periods splits the covariance matrix
Partition ==
    /\ pc = "covar"
    /\ n' = CountMasked(ln_psas_cond)
    /\ pc' = "partitioned"
    /\ UNCHANGED <<periods, ln_psas, ln_stds, ln_psas_cond, rho, err,
                   periods_grouped, mat_covar, mat_covar_22_inv, mat_total_resids,
                   ln_psas_cmsv, ln_stds_cmsv, call, first>>

\* line 70: np.linalg.inv raises LinAlgError on a singular matrix
Invert ==
    /\ pc = "partitioned"
    /\ IF Singular(mat_covar_22)
       THEN pc' = "raised" /\ err' = "LinAlgError" /\ UNCHANGED mat_covar_22_inv
       ELSE pc' = "inverted" /\ err' = err /\ mat_covar_22_inv' = Inv(mat_covar_22)
    /\ UNCHANGED <<periods, ln_psas, ln_stds, ln_psas_cond, rho,
                   periods_grouped, mat_covar, n, mat_total_resids,
                   ln_psas_cmsv, ln_stds_cmsv, call, first>>

\* ln_psas_cond in the place of ln_psas
MaskedMean_FromCond == Masked(ln_psas_cond.data, mask)

\* line 74: the unconditioned mean of the masked periods
MaskedMean == Masked(ln_psas, mask)

\* the unconditioned mean in the place of the conditioning values
CondTargets_Unconditioned == Unmasked(ln_psas, mask)

\* line 76: ln_psas_cond[~mask].data
CondTargets == Unmasked(ln_psas_cond.data, mask)

\* lines 71-77: conditional mean, Equation (3)
CondMean ==
    /\ pc = "inverted"
    /\ mat_total_resids' =
           Column(VecSub(Unmasked(ln_psas_cond.data, mask), Unmasked(ln_psas, mask)))
    /\ ln_psas_cmsv' =
           VecAdd(MaskedMean,
                  Ravel(MatMul(MatMul(mat_covar_12, mat_covar_22_inv),
                               mat_total_resids')))
           \o CondTargets
    /\ pc' = "mean"
    /\ UNCHANGED <<periods, ln_psas, ln_stds, ln_psas_cond, rho, err,
                   periods_grouped, mat_covar, n, mat_covar_22_inv,
                   ln_stds_cmsv, call, first>>

\* lines 78-83: conditional standard deviation, Equation (4)
CondStd ==
    /\ pc = "mean"
    /\ LET schur == DiagOf(MatSub(mat_covar_11,
                                  MatMul(MatMul(mat_covar_12, mat_covar_22_inv),
                                         mat_covar_21)))
       IN  ln_stds_cmsv' = [i \in DOMAIN schur |-> Sqrt(schur[i])]
                           \o Zeros(Count(ln_psas_cond))
    /\ pc' = "std"
    /\ UNCHANGED <<periods, ln_psas, ln_stds, ln_psas_cond, rho, err,
                   periods_grouped, mat_covar, n, mat_covar_22_inv, mat_total_resids,
                   ln_psas_cmsv, call, first>>

\* lines 84-89: back to the order of periods
Restore ==
    /\ pc = "std"
    /\ LET indices == ArgSort(periods_grouped)
       IN  /\ ln_psas_cmsv' = Gather(ln_psas_cmsv, indices)
           /\ ln_stds_cmsv' = Gather(ln_stds_cmsv, indices)
    /\ pc' = "returned"
    /\ UNCHANGED <<periods, ln_psas, ln_stds, ln_psas_cond, rho, err,
                   periods_grouped, mat_covar, n, mat_covar_22_inv, mat_total_resids,
                   call, first>>

(***************************************************************************)
(* A second call, made after the first one returned, with arguments        *)
(* derived from the first call's.                                          *)
(***************************************************************************)
Returned == [periods |-> periods, ln_psas |-> ln_psas, ln_stds |-> ln_stds,
             ln_psas_cond |-> ln_psas_cond,
             ln_psas_cmsv |-> ln_psas_cmsv, ln_stds_cmsv |-> ln_stds_cmsv,
             swapped |-> <<0, 0>>]

Enter(kind) ==
    /\ call' = kind
    /\ pc' = "start"
    /\ periods_grouped' = <<>>
    /\ mat_covar' = NoMat
    /\ n' = 0
    /\ mat_covar_22_inv' = NoMat
    /\ mat_total_resids' = NoMat
    /\ ln_psas_cmsv' = <<>>
    /\ ln_stds_cmsv' = <<>>
    /\ UNCHANGED <<rho, err>>

Swap(a, i, j) == [a EXCEPT ![i] = a[j], ![j] = a[i]]

\* the same call with other data under the masked entries of ln_psas_cond
CallVaryMasked ==
    /\ pc = "returned" /\ call = "first"
    /\ \E d \in [Idx -> TargetVals] :
          /\ d # ln_psas_cond.data
          /\ \A i \in Idx : ~mask[i] => d[i] = ln_psas_cond.data[i]
          /\ ln_psas_cond' = [ln_psas_cond EXCEPT !.data = d]
    /\ first' = Returned
    /\ Enter("vary")
    /\ UNCHANGED <<periods, ln_psas, ln_stds>>

\* the returned ln_psas_cmsv as ln_psas_cond with no entry masked
CallFeedBack ==
    /\ pc = "returned" /\ call = "first"
    /\ ln_psas_cond' = [data |-> ln_psas_cmsv, mask |-> [i \in Idx |-> FALSE]]
    /\ first' = Returned
    /\ Enter("feedback")
    /\ UNCHANGED <<periods, ln_psas, ln_stds>>

\* two non-adjacent masked periods exchanged, with their entries in every array
CallSwapped ==
    /\ pc = "returned" /\ call = "first"
    /\ \E i \in Idx, j \in Idx :
          /\ j > i + 1
          /\ mask[i] /\ mask[j]
          /\ periods' = Swap(periods, i, j)
          /\ ln_psas' = Swap(ln_psas, i, j)
          /\ ln_stds' = Swap(ln_stds, i, j)
          /\ ln_psas_cond' = [ln_psas_cond EXCEPT !.data = Swap(ln_psas_cond.data, i, j)]
          /\ first' = [Returned EXCEPT !.swapped = <<i, j>>]
    /\ Enter("swap")

(***************************************************************************)
(* Idriss (2014): construction of the model from its parameters.           *)
(* Magnitudes are in hundredths.                                           *)
(***************************************************************************)
VARIABLES
    params,          \* the keyword arguments
    ipc,             \* position in Idriss2014.__init__
    ierr,            \* the parameter a validation error names
    coeff,           \* coefficient table chosen by _calc_ln_resp
    flag_mech,       \* mechanism flag F of _calc_ln_resp
    mag_std          \* the clipped magnitude _calc_ln_std uses

idriss_vars == <<params, ipc, ierr, coeff, flag_mech, mag_std>>

vars == <<cmsv_vars, idriss_vars>>

\* PARAMS: limits of the numeric parameters, options of the categorical one
DistRupMax == 150
MagMin == 500
VS30Min == 450
VS30Max == 1200
MechanismOptions == {"SS", "RS"}
\* magnitude up to which the small-magnitude coefficients apply
MagSmall == 675
\* magnitude range of the standard deviation
MagStdMin == 500
MagStdMax == 750

MagVals == {450, 500, 675, 700, 800}
DistVals == {10, 150, 200}
VS30Vals == {400, 450, 1200, 1300}
MechanismVals == {"SS", "NS", "RS", "U"}

Clip(x, lo, hi) == IF x < lo THEN lo ELSE IF x > hi THEN hi ELSE x

IdrissIdle ==
    /\ params = [dist_rup |-> 0, mag |-> 0, v_s30 |-> 0, mechanism |-> "SS"]
    /\ ipc = "idle"
    /\ ierr = "none"
    /\ coeff = "none"
    /\ flag_mech = 0
    /\ mag_std = 0

CmsvIdle ==
    /\ periods = <<>>
    /\ ln_psas = <<>>
    /\ ln_stds = <<>>
    /\ ln_psas_cond = [data |-> <<>>, mask |-> <<>>]
    /\ rho = ROne
    /\ pc = "idle"
    /\ err = "none"
    /\ periods_grouped = <<>>
    /\ mat_covar = NoMat
    /\ n = 0
    /\ mat_covar_22_inv = NoMat
    /\ mat_total_resids = NoMat
    /\ ln_psas_cmsv = <<>>
    /\ ln_stds_cmsv = <<>>
    /\ call = "first"
    /\ first = NoFirst

\* model.Model.__init__: every parameter is checked against its limits or its
\* options; the first offending parameter of PARAMS is reported
Offending(p) ==
    IF p.dist_rup > DistRupMax THEN "dist_rup"
    ELSE IF p.mag < MagMin THEN "mag"
    ELSE IF p.v_s30 < VS30Min \/ p.v_s30 > VS30Max THEN "v_s30"
    ELSE IF p.mechanism \notin MechanismOptions THEN "mechanism"
    ELSE "none"

\* line 59: super().__init__(**kwds)
ModelInit ==
    /\ ipc = "new"
    /\ ierr' = Offending(params)
    /\ ipc' = IF ierr' = "none" THEN "checked" ELSE "invalid"
    /\ UNCHANGED <<params, coeff, flag_mech, mag_std>>

\* lines 60, 63-87: the coefficient table and the mechanism flag
CalcLnResp ==
    /\ ipc = "checked"
    /\ coeff' = IF params.mag <= MagSmall THEN "small" ELSE "large"
    /\ flag_mech' = IF params.mechanism = "RS" THEN 1 ELSE 0
    /\ ipc' = "resp"
    /\ UNCHANGED <<params, ierr, mag_std>>

\* lines 61, 89-98
CalcLnStd ==
    /\ ipc = "resp"
    /\ mag_std' = Clip(params.mag, MagStdMin, MagStdMax)
    /\ ipc' = "built"
    /\ UNCHANGED <<params, ierr, coeff, flag_mech>>

InitIdriss ==
    /\ params \in [dist_rup : DistVals, mag : MagVals, v_s30 : VS30Vals,
                   mechanism : MechanismVals]
    /\ ipc = "new"
    /\ ierr = "none"
    /\ coeff = "none"
    /\ flag_mech = 0
    /\ mag_std = 0
    /\ CmsvIdle

NextIdriss ==
    \/ ModelInit /\ UNCHANGED cmsv_vars
    \/ CalcLnResp /\ UNCHANGED cmsv_vars
    \/ CalcLnStd /\ UNCHANGED cmsv_vars

SpecIdriss == InitIdriss /\ [][NextIdriss]_vars

Init == InitCmsv /\ IdrissIdle

Next ==
    \/ CheckPeriods /\ UNCHANGED idriss_vars
    \/ GroupPeriods /\ UNCHANGED idriss_vars
    \/ Covariance /\ UNCHANGED idriss_vars
    \/ Partition /\ UNCHANGED idriss_vars
    \/ Invert /\ UNCHANGED idriss_vars
    \/ CondMean /\ UNCHANGED idriss_vars
    \/ CondStd /\ UNCHANGED idriss_vars
    \/ Restore /\ UNCHANGED idriss_vars
    \/ CallVaryMasked /\ UNCHANGED idriss_vars
    \/ CallFeedBack /\ UNCHANGED idriss_vars
    \/ CallSwapped /\ UNCHANGED idriss_vars

Spec == Init /\ [][Next]_vars

(***************************************************************************)
(* Properties                                                              *)
(***************************************************************************)
Terminal == pc \in {"returned", "raised"}
AllMasked == \A i \in DOMAIN mask : mask[i]
NoneMasked == \A i \in DOMAIN mask : ~mask[i]
NoResult == ln_psas_cmsv = <<>> /\ ln_stds_cmsv = <<>>
\* some period is not larger than the one before it
OutOfOrder == \E k \in 1..(Len(periods) - 1) : periods[k + 1] <= periods[k]

\* C1: in every call that returns, at every conditioning (unmasked) index the
\* returned mean is the supplied ln_psas_cond value and the returned standard
\* deviation is 0.
C1_ConditioningExact ==
    pc = "returned" =>
        \A i \in DOMAIN mask :
            ~mask[i] => /\ ln_psas_cmsv[i] = ln_psas_cond.data[i]
                        /\ ln_stds_cmsv[i] = Exact(RZero)

\* a returned first call where a conditioning period follows a masked one, its
\* target differs from the unconditioned mean and the masked one keeps a spread
C1_Witness ==
    /\ pc = "returned" /\ call = "first"
    /\ \E i \in Idx, j \in Idx :
          /\ j < i /\ ~mask[i] /\ mask[j]
          /\ ln_psas_cond.data[i] # ln_psas[i]
          /\ ln_psas_cmsv[i] = ln_psas_cond.data[i]
          /\ ln_stds_cmsv[j] # Exact(RZero)
          /\ ln_psas_cmsv[j] # ln_psas[j]

\* C2: the returned arrays are as long as periods, and the restoration puts the
\* value computed for the grouped entry of period periods[i] at index i.
C2_RestoredToInputOrder ==
    [][(pc = "std" /\ pc' = "returned") =>
          /\ Len(ln_psas_cmsv') = Len(periods)
          /\ Len(ln_stds_cmsv') = Len(periods)
          /\ \A i \in DOMAIN periods : \A g \in DOMAIN periods_grouped :
                periods_grouped[g] = periods[i] =>
                    /\ ln_psas_cmsv'[i] = ln_psas_cmsv[g]
                    /\ ln_stds_cmsv'[i] = ln_stds_cmsv[g]]_vars

\* a returned call whose grouping was a cyclic shift of the periods, with
\* different values at the moved places
C2_Witness ==
    /\ pc = "returned"
    /\ ~mask[1] /\ \A i \in Idx \ {1} : mask[i]
    /\ periods_grouped[NumPeriods] = periods[1]
    /\ ln_psas_cmsv[1] # ln_psas_cmsv[2]
    /\ ln_psas_cmsv[2] # ln_psas_cmsv[NumPeriods]

\* C3: periods that are not strictly increasing make the call raise the
\* ordering error before anything is computed, and nothing is returned.
C3_NotIncreasingRaises ==
    (OutOfOrder /\ pc # "start") =>
        /\ pc = "raised" /\ err = "ValueError"
        /\ periods_grouped = <<>> /\ mat_covar = NoMat /\ mat_covar_22_inv = NoMat
        /\ NoResult

\* a first call rejected for two equal adjacent periods
C3_Witness ==
    /\ call = "first" /\ pc = "raised" /\ err = "ValueError"
    /\ \E k \in 1..(NumPeriods - 1) : periods[k + 1] = periods[k]
    /\ NoResult

\* C4 as claimed: a mask with no conditioning period or no free period never
\* lets the call return a result.
C4_DegenerateMaskRejected ==
    (AllMasked \/ NoneMasked) => pc # "returned"

\* the covariance matrix of all periods in input order
FullCovariance ==
    Mat(Len(periods), Len(periods), [i \in 1..Len(periods), j \in 1..Len(periods) |->
        RMul(RMul(ln_stds[i], ln_stds[j]), RPow(rho, Abs(periods[i] - periods[j])))])

\* C4 as amended: with increasing periods a degenerate mask raises no
\* configuration error.  With every period masked the call returns the
\* unconditioned spectrum; with no period masked it returns the conditioning
\* values with zero standard deviation, unless the covariance matrix of all
\* periods is singular, and then it raises LinAlgError.
C4_DegenerateMaskReturns ==
    (Terminal /\ ~OutOfOrder) =>
        /\ AllMasked =>
              /\ pc = "returned"
              /\ ln_psas_cmsv = ln_psas
              /\ ln_stds_cmsv = [i \in DOMAIN ln_stds |-> Exact(ln_stds[i])]
        /\ NoneMasked =>
              IF Det(FullCovariance) = RZero
              THEN pc = "raised" /\ err = "LinAlgError" /\ NoResult
              ELSE /\ pc = "returned"
                   /\ ln_psas_cmsv = ln_psas_cond.data
                   /\ ln_stds_cmsv = [i \in DOMAIN ln_stds |-> Exact(RZero)]

\* a first call with every period masked that returned a spectrum with unequal
\* standard deviations
C4_Witness ==
    /\ call = "first" /\ pc = "returned" /\ AllMasked
    /\ ln_stds_cmsv[1] = Exact(RInt(2))
    /\ ln_stds_cmsv[NumPeriods] = Exact(ROne)
    /\ ln_psas_cmsv[NumPeriods] = RInt(-NumPeriods)

\* C5: a second call that differs from the first only in the data under the
\* masked entries of ln_psas_cond returns what the first call returned.
C5_MaskedDataIgnored ==
    (call = "vary" /\ Terminal) =>
        /\ pc = "returned"
        /\ ln_psas_cmsv = first.ln_psas_cmsv
        /\ ln_stds_cmsv = first.ln_stds_cmsv

\* such a second call has returned, with a conditioning period that moved the
\* mean at the masked entry whose data changed
C5_Witness ==
    /\ call = "vary" /\ pc = "returned"
    /\ first.ln_psas_cond.mask = mask
    /\ \E i \in Idx :
          /\ mask[i]
          /\ ln_psas_cond.data[i] # first.ln_psas_cond.data[i]
          /\ ln_psas_cmsv[i] # ln_psas[i]
          /\ ln_psas_cmsv[i] # ln_psas_cond.data[i]

\* C6 as claimed: feeding the returned ln_psas_cmsv back as ln_psas_cond with no
\* entry masked returns the same values, all with zero standard deviation.
C6_FeedBackReturnsSame ==
    (call = "feedback" /\ Terminal) =>
        /\ pc = "returned"
        /\ ln_psas_cmsv = first.ln_psas_cmsv
        /\ \A i \in DOMAIN ln_stds_cmsv : ln_stds_cmsv[i] = Exact(RZero)

\* C6 as amended: the fed-back call returns the same values with zero standard
\* deviation when the covariance matrix of all periods is invertible, and
\* raises LinAlgError without a result when it is singular.
C6_FeedBackUnlessSingular ==
    (call = "feedback" /\ Terminal) =>
        IF Det(FullCovariance) = RZero
        THEN pc = "raised" /\ err = "LinAlgError" /\ NoResult
        ELSE /\ pc = "returned"
             /\ ln_psas_cmsv = first.ln_psas_cmsv
             /\ ln_stds_cmsv = [i \in DOMAIN ln_stds |-> Exact(RZero)]

\* a fed-back call returned values that the first call had moved away from the
\* unconditioned mean at a masked period
C6_Witness ==
    /\ call = "feedback" /\ pc = "returned"
    /\ \E i \in Idx :
          /\ first.ln_psas_cond.mask[i]
          /\ first.ln_psas_cmsv[i] # ln_psas[i]
          /\ first.ln_stds_cmsv[i] # Exact(RZero)
          /\ ln_psas_cmsv[i] = first.ln_psas_cmsv[i]
          /\ ln_stds_cmsv[i] = Exact(RZero)

\* C7 as claimed: the call with two non-adjacent masked periods exchanged
\* returns the first call's result with the two entries exchanged.
C7_SwapEquivariant ==
    (call = "swap" /\ Terminal) =>
        /\ pc = "returned"
        /\ ln_psas_cmsv =
               Swap(first.ln_psas_cmsv, first.swapped[1], first.swapped[2])
        /\ ln_stds_cmsv =
               Swap(first.ln_stds_cmsv, first.swapped[1], first.swapped[2])

\* C7 as amended: exchanging two periods of an increasing array leaves it not
\* increasing, so the exchanged call raises the ordering error and returns
\* nothing.
C7_SwapRaises ==
    (call = "swap" /\ pc # "start") =>
        /\ pc = "raised" /\ err = "ValueError"
        /\ NoResult

\* the call with the first and the last period exchanged was rejected, after a
\* first call that returned
C7_Witness ==
    /\ call = "swap" /\ pc = "raised" /\ err = "ValueError"
    /\ first.swapped = <<1, NumPeriods>>
    /\ periods[1] = first.periods[NumPeriods]
    /\ Len(first.ln_psas_cmsv) = NumPeriods

\* C8: with exactly one conditioning period c, every masked period i gets
\* ln_psas[i] + correl(i,c) ln_stds[i] (target - ln_psas[c]) / ln_stds[c] and the
\* variance ln_stds[i]^2 (1 - correl(i,c)^2).
C8_SingleConditioning ==
    (pc = "returned" /\ Count(ln_psas_cond) = 1) =>
        LET c == CHOOSE k \in DOMAIN mask : ~mask[k]
            correl(i) == RPow(rho, Abs(periods[i] - periods[c]))
        IN  \A i \in DOMAIN mask :
                mask[i] =>
                    /\ ln_psas_cmsv[i] =
                           RAdd(ln_psas[i],
                                RDiv(RMul(RMul(correl(i), ln_stds[i]),
                                          RSub(ln_psas_cond.data[c], ln_psas[c])),
                                     ln_stds[c]))
                    /\ ln_stds_cmsv[i] =
                           Sqrt(RMul(RMul(ln_stds[i], ln_stds[i]),
                                     RSub(ROne, RMul(correl(i), correl(i)))))

\* a returned call conditioned on the middle period alone: the neighbours move
\* by different amounts and keep different, reduced spreads
C8_Witness ==
    /\ pc = "returned" /\ call = "first"
    /\ mask = [i \in Idx |-> i # 2]
    /\ rho = Rat(1, 2)
    /\ ln_psas = [i \in Idx |-> RZero]
    /\ ln_stds[1] = ROne /\ ln_stds[2] = ROne /\ ln_stds[3] = RInt(2)
    /\ ln_psas_cond.data[2] = ROne
    /\ ln_psas_cmsv[1] = Rat(1, 2) /\ ln_psas_cmsv[2] = ROne /\ ln_psas_cmsv[3] = ROne
    /\ ln_stds_cmsv[1] = Sqrt(Rat(3, 4)) /\ ln_stds_cmsv[3] = Sqrt(RInt(3))

\* C9: the mechanisms SS, NS and RS are accepted, SS and NS give flag F = 0 and
\* only RS gives F = 1.
C9_MechanismsAccepted ==
    (/\ ipc \notin {"idle", "new"}
     /\ params.mechanism \in {"SS", "NS", "RS"}
     /\ Offending([params EXCEPT !.mechanism = "SS"]) = "none") =>
        /\ ipc # "invalid"
        /\ ipc \in {"resp", "built"} =>
               flag_mech = (IF params.mechanism = "RS" THEN 1 ELSE 0)

\* the conditioning periods' positions in periods, in order
CondIdx == Unmasked([i \in DOMAIN mask |-> i], mask)

\* the covariance matrix of the conditioning periods, from the arguments
CondCovariance ==
    Mat(Len(CondIdx), Len(CondIdx), [a \in 1..Len(CondIdx), b \in 1..Len(CondIdx) |->
        RMul(RMul(ln_stds[CondIdx[a]], ln_stds[CondIdx[b]]),
             RPow(rho, Abs(periods[CondIdx[a]] - periods[CondIdx[b]])))])

\* C10: the inverted block is the covariance of the conditioning periods, the
\* residual has one entry per conditioning period, and the split at n matches
\* the grouping: n masked periods first, then the conditioning ones.
C10_ConditioningBlockInverted ==
    /\ pc \in {"partitioned", "inverted", "mean", "std"} =>
          /\ n + Len(CondIdx) = Len(periods)
          /\ mat_covar.r = Len(periods) /\ mat_covar.c = Len(periods)
          /\ \A g \in DOMAIN periods_grouped :
                \E i \in DOMAIN periods :
                    /\ periods[i] = periods_grouped[g]
                    /\ mask[i] <=> g <= n
    /\ pc \in {"inverted", "mean", "std"} =>
          /\ mat_covar_22_inv.r = Len(CondIdx) /\ mat_covar_22_inv.c = Len(CondIdx)
          /\ MatMul(mat_covar_22_inv, CondCovariance) = Identity(Len(CondIdx))
    /\ pc \in {"mean", "std"} =>
          /\ mat_total_resids.r = Len(CondIdx) /\ mat_total_resids.c = 1
          /\ \A a \in DOMAIN CondIdx :
                mat_total_resids.e[a][1] =
                    RSub(ln_psas_cond.data[CondIdx[a]], ln_psas[CondIdx[a]])

\* the block of two conditioning periods with different spreads was inverted,
\* one period being masked
C10_Witness ==
    /\ pc = "mean" /\ call = "first"
    /\ n = 1 /\ mat_covar_22_inv.r = 2
    /\ mask[1] /\ ~mask[2]
    /\ ln_stds[1] = RInt(2) /\ ln_stds[2] = ROne /\ ln_stds[NumPeriods] = RInt(2)
    /\ rho = Rat(1, 2)
    /\ mat_covar_22_inv # Slice(mat_covar, 0, 2, 0, 2)
    /\ mat_total_resids.e[1][1] # mat_total_resids.e[2][1]

====
